---- MODULE Spec2Model ----
(***************************************************************************)
(* Model of src/src/matrixtables.py: the variant-by-sample matrix (VSM)    *)
(* filtering stages built on the Hail MatrixTable.                         *)
(*                                                                         *)
(* A MatrixTable value is a record                                         *)
(*   [fields : the row-annotation fields its schema declares,              *)
(*    cols   : the set of sample ids (column key s),                       *)
(*    rows   : the set of row records,                                     *)
(*    entry_stats_col : per-sample entry-filter statistics, or None]       *)
(* and a row is a record                                                   *)
(*   [rsid, locus : [contig, position], alleles, entries : cols -> entry,  *)
(*    a_index, was_split, variant_qc, varid, entry_stats_row].             *)
(* Strings whose characters the code inspects are sequences of one-        *)
(* character strings.  An optional value is a sequence of length <= 1:     *)
(* <<>> is Python's None / Hail's missing value, <<v>> is the value v.     *)
(* Every row of a fixture carries its own rsid, so a set of row records    *)
(* stands for the table's rows without merging two of them.                *)
(***************************************************************************)
EXTENDS Integers, Sequences, FiniteSets, TLC

VARIABLES vcf_files, cfg, mt, inp, hist, status, stdout, pc

vars == <<vcf_files, cfg, mt, inp, hist, status, stdout, pc>>

----------------------------------------------------------------------------
(* Bounds of the model *)

MaxCalls == 2
MaxDP == 3
MaxGQ == 1
MaxAlleles == 3
MaxPos == 2
MaxP == 2

----------------------------------------------------------------------------
(* Optional values and Hail's three-valued logic *)

None == <<>>

Some(v) == <<v>>

\* a & b on optional booleans: false wins over missing
And3(a, b) ==
  IF a = Some(FALSE) \/ b = Some(FALSE) THEN Some(FALSE)
  ELSE IF a = None \/ b = None THEN None
  ELSE Some(TRUE)

\* a | b on optional booleans: true wins over missing
Or3(a, b) ==
  IF a = Some(TRUE) \/ b = Some(TRUE) THEN Some(TRUE)
  ELSE IF a = None \/ b = None THEN None
  ELSE Some(FALSE)

\* x > y and x >= y where x is an optional number (a missing operand gives missing)
Gt3(x, y) == IF x = None THEN None ELSE Some(x[1] > y)

Ge3(x, y) == IF x = None THEN None ELSE Some(x[1] >= y)

----------------------------------------------------------------------------
(* Strings *)

Digits == <<"0", "1", "2", "3", "4", "5", "6", "7", "8", "9">>

\* hl.str of a non-negative integer: its decimal digits
RECURSIVE IntToStr(_)
IntToStr(n) ==
  IF n < 10 THEN <<Digits[n + 1]>>
  ELSE IntToStr(n \div 10) \o <<Digits[(n % 10) + 1]>>

\* str.startswith
StartsWith(s, prefix) ==
  /\ Len(s) >= Len(prefix)
  /\ SubSeq(s, 1, Len(prefix)) = prefix

\* hl.delimit(parts, sep)
RECURSIVE Delimit(_, _)
Delimit(parts, sep) ==
  IF parts = <<>> THEN <<>>
  ELSE IF Len(parts) = 1 THEN parts[1]
  ELSE parts[1] \o sep \o Delimit(Tail(parts), sep)

Chr == <<"c", "h", "r">>

\* f"chr{mapping['GRCh38_region']}"
ChrRegion(mapping) == Chr \o mapping.GRCh38_region

----------------------------------------------------------------------------
(* Results of a stage: the returned table, or the exception that reached   *)
(* the caller, and what the stage wrote to standard output.                *)

Return(m, printed) == [status |-> "ok", mt |-> m, stdout |-> printed]

Raise(exc, m, printed) == [status |-> exc, mt |-> m, stdout |-> printed]

\* MatrixTable.filter_rows(pred, keep=True): kept is the set of rows for which
\* pred is true
FilterRows(m, kept) == [m EXCEPT !.rows = {r \in m.rows : r \in kept}]

----------------------------------------------------------------------------
(* import_mt *)

\* hl.parse_locus_interval(f"[chr{region}:{start}-chr{region}:{end}]"): both ends closed
ParseLocusInterval(mapping) ==
  [contig |-> ChrRegion(mapping),
   start |-> mapping.GRCh38_start,
   end |-> mapping.GRCh38_end]

IntervalContains(iv, locus) ==
  /\ locus.contig = iv.contig
  /\ iv.start <= locus.position
  /\ locus.position <= iv.end

\* hl.import_gvcfs(vcf_files, partitions=region): one table per file, rows of the region only
ImportGvcfs(files, region) ==
  [i \in DOMAIN files |->
     FilterRows(files[i], {r \in files[i].rows : IntervalContains(region, r.locus)})]

\* hl.MatrixTable.union_rows(*mts): the tables must have the same columns and row schema
RECURSIVE UnionRows(_)
UnionRows(mts) ==
  IF Len(mts) = 1 THEN Return(mts[1], <<>>)
  ELSE LET rest == UnionRows(Tail(mts)) IN
       IF rest.status # "ok" THEN rest
       ELSE IF mts[1].cols # rest.mt.cols \/ mts[1].fields # rest.mt.fields
            THEN Raise("HailException", mts[1], <<>>)
            ELSE Return([mts[1] EXCEPT !.rows = @ \cup rest.mt.rows], <<>>)

import_mt(files, mapping) ==
  IF mapping.GRCh38_start > mapping.GRCh38_end
  THEN Raise("HailException", files[1], <<>>)
  ELSE LET mts == ImportGvcfs(files, ParseLocusInterval(mapping)) IN
       IF Len(mts) = 1 THEN Return(mts[1], <<>>) ELSE UnionRows(mts)

----------------------------------------------------------------------------
(* interval_qc_mt *)

Tab == <<"\t">>

\* the text of a BED line: contig, start and end separated by tabs
BedLineText(l) == Delimit(<<l.contig, IntToStr(l.start), IntToStr(l.end)>>, Tab)

\* filter=f"^(?!(chr{region}))": the regex matches a line that does NOT begin with
\* chr{region}, and import_bed drops the lines the regex matches
BedFilterMatches(line, mapping) == ~ StartsWith(BedLineText(line), ChrRegion(mapping))

\* hl.import_bed: BED is 0-based and end-exclusive; the line (c, s, e) is the
\* interval of 1-based positions s+1 .. e
ImportBed(intervals, mapping) ==
  {[contig |-> l.contig, start |-> l.start + 1, end |-> l.end] :
     l \in {x \in intervals : ~ BedFilterMatches(x, mapping)}}

interval_qc_mt(m, mapping, intervals) ==
  LET interval_table == ImportBed(intervals, mapping) IN
  Return(FilterRows(m, {r \in m.rows :
                          \E iv \in interval_table : IntervalContains(iv, r.locus)}),
         <<>>)

----------------------------------------------------------------------------
(* hard_sample_filter_mt *)

\* hl.import_table(samples_to_remove, no_header=True, key="f0"): the keys of the table
ImportTable(lines) == {lines[i] : i \in DOMAIN lines}

\* restrict a table to the columns in keep
KeepCols(m, keep) ==
  [m EXCEPT !.cols = keep,
            !.rows = {[r EXCEPT !.entries = [s \in keep |-> r.entries[s]]] : r \in m.rows},
            !.entry_stats_col =
               IF @ = None THEN None ELSE Some([s \in keep |-> @[1][s]])]

\* mt.anti_join_cols(ht)
AntiJoinCols(m, keys) == KeepCols(m, {s \in m.cols : s \notin keys})

\* FilterDashCols with keep=True: only the '-'-prefixed columns stay
FilterDashColsKeepTrue(m) == KeepCols(m, {s \in m.cols : StartsWith(s, <<"-">>)})

\* mt.filter_cols(mt.s.startswith("-"), keep=False)
FilterDashCols(m) == KeepCols(m, {s \in m.cols : ~ StartsWith(s, <<"-">>)})

hard_sample_filter_mt(m, samples_to_remove) ==
  Return(FilterDashCols(AntiJoinCols(m, ImportTable(samples_to_remove))), <<>>)

----------------------------------------------------------------------------
(* smart_split_multi_mt *)

\* BiallelicRows with >= in place of ==: hl.len(mt.alleles) >= 2
BiallelicRowsAtLeastTwo(m) == FilterRows(m, {r \in m.rows : Len(r.alleles) >= 2})

\* mt.filter_rows(hl.len(mt.alleles) == 2)
BiallelicRows(m) == FilterRows(m, {r \in m.rows : Len(r.alleles) = 2})

\* bi.annotate_rows(a_index=1, was_split=False)
AnnotateBiallelic(m) ==
  [m EXCEPT !.fields = @ \cup {"a_index", "was_split"},
            !.rows = {[r EXCEPT !.a_index = Some(1), !.was_split = Some(FALSE)] : r \in m.rows}]

\* mt.filter_rows(hl.len(mt.alleles) > 2)
MultiallelicRows(m) == FilterRows(m, {r \in m.rows : Len(r.alleles) > 2})

\* hl.downcode(GT, i): allele i becomes 1 and every other allele 0 (unphased, so
\* the allele indices of the call are kept in ascending order)
Downcode(call, i) ==
  LET ones == Cardinality({j \in 1..Len(call) : call[j] = i}) IN
  [j \in 1..Len(call) |-> IF j > Len(call) - ones THEN 1 ELSE 0]

\* the entry of a split row: GT downcoded to the kept alternate allele
SplitEntry(e, i) ==
  IF e = None THEN None
  ELSE Some([e[1] EXCEPT !.GT = IF @ = None THEN None ELSE Some(Downcode(@[1], i))])

\* the row split_multi_hts makes of row r for its alternate allele i
SplitRow(r, i) ==
  [r EXCEPT !.alleles = <<r.alleles[1], r.alleles[i + 1]>>,
            !.a_index = Some(i),
            !.was_split = Some(Len(r.alleles) > 2),
            !.entries = [s \in DOMAIN r.entries |-> SplitEntry(r.entries[s], i)]]

\* hl.split_multi_hts(multi, left_aligned=left_aligned): one row per alternate
\* allele.  The alleles of the fixtures are single bases, which min_rep leaves
\* where they are, so left_aligned does not change the rows.
split_multi_hts(m, left_aligned) ==
  [m EXCEPT !.fields = @ \cup {"a_index", "was_split"},
            !.rows = UNION {{SplitRow(r, i) : i \in 1..(Len(r.alleles) - 1)} : r \in m.rows}]

smart_split_multi_mt(m, left_aligned) ==
  LET bi == AnnotateBiallelic(BiallelicRows(m))
      multi == MultiallelicRows(m)
      split == split_multi_hts(multi, left_aligned)
  IN  UnionRows(<<split, bi>>)

----------------------------------------------------------------------------
(* hard_variant_filter_mt, filter_no_carriers *)

\* the attribute lookup mt.variant_qc succeeds
HasVariantQC(m) == "variant_qc" \in m.fields

\* mt.variant_qc.p_value_hwe < min_p_value_hwe
BelowHwe(r, min_p_value_hwe) == r.variant_qc[1].p_value_hwe < min_p_value_hwe

\* BelowMeanGQ with <= in place of <
BelowMeanGQOrEqual(r, min_GQ) == r.variant_qc[1].gq_stats_mean <= min_GQ

\* mt.variant_qc.gq_stats.mean < min_GQ
BelowMeanGQ(r, min_GQ) == r.variant_qc[1].gq_stats_mean < min_GQ

HardVariantWarning == <<"hard_variant_filter requires variant_qc">>

hard_variant_filter_mt(m, min_p_value_hwe, min_GQ) ==
  LET printed == IF HasVariantQC(m) THEN <<>> ELSE HardVariantWarning
      m1 == IF min_p_value_hwe # None
            THEN FilterRows(m, {r \in m.rows : ~ BelowHwe(r, min_p_value_hwe[1])})
            ELSE m
      m2 == IF min_GQ # None
            THEN FilterRows(m1, {r \in m1.rows : ~ BelowMeanGQ(r, min_GQ[1])})
            ELSE m1
  IN  IF ~ HasVariantQC(m) /\ (min_p_value_hwe # None \/ min_GQ # None)
      THEN Raise("AttributeError", m, printed)
      ELSE Return(m2, printed)

\* mt.variant_qc.n_non_ref == 0
NoCarrier(r) == r.variant_qc[1].n_non_ref = 0

NoCarriersWarning == <<"filter_no_carriers requires variant_qc">>

filter_no_carriers(m) ==
  IF ~ HasVariantQC(m)
  THEN Raise("AttributeError", m, NoCarriersWarning)
  ELSE Return(FilterRows(m, {r \in m.rows : ~ NoCarrier(r)}), <<>>)

----------------------------------------------------------------------------
(* genotype_filter_mt *)

\* GT.is_haploid() and GT.is_diploid(): missing when GT is missing
IsHaploid(e) == IF e.GT = None THEN None ELSE Some(Len(e.GT[1]) = 1)

IsDiploid(e) == IF e.GT = None THEN None ELSE Some(Len(e.GT[1]) = 2)

\* HaploidMinDP with the half rounded up in place of down
HaploidMinDPCeil(min_DP) == (min_DP + 1) \div 2

\* min_DP // 2: Python's floor division
HaploidMinDP(min_DP) == min_DP \div 2

\* the predicate handed to filter_entries, on a defined entry
GenotypePredicate(e, min_DP, min_GQ) ==
  Or3(And3(And3(IsHaploid(e), Gt3(e.DP, HaploidMinDP(min_DP))), Ge3(e.GQ, min_GQ)),
      And3(And3(IsDiploid(e), Gt3(e.DP, min_DP)), Ge3(e.GQ, min_GQ)))

\* mt.filter_entries(pred, keep=True): an entry whose predicate is false or
\* missing becomes missing
FilterEntries(m, min_DP, min_GQ) ==
  [m EXCEPT !.rows =
     {[r EXCEPT !.entries =
         [s \in DOMAIN r.entries |->
            IF r.entries[s] # None
               /\ GenotypePredicate(r.entries[s][1], min_DP, min_GQ) = Some(TRUE)
            THEN r.entries[s] ELSE None]] : r \in m.rows}]

EntryStats(n_filtered, n_remaining) ==
  [n_filtered |-> n_filtered, n_remaining |-> n_remaining,
   fraction_filtered |-> <<n_filtered, n_filtered + n_remaining>>]

\* mt.compute_entry_filter_stats(): row field entry_stats_row, column field entry_stats_col
ComputeEntryFilterStats(m) ==
  [m EXCEPT
     !.fields = @ \cup {"entry_stats_row"},
     !.rows = {[r EXCEPT !.entry_stats_row =
                  Some(EntryStats(Cardinality({s \in m.cols : r.entries[s] = None}),
                                  Cardinality({s \in m.cols : r.entries[s] # None})))]
               : r \in m.rows},
     !.entry_stats_col =
        Some([s \in m.cols |->
                EntryStats(Cardinality({r \in m.rows : r.entries[s] = None}),
                           Cardinality({r \in m.rows : r.entries[s] # None}))])]

genotype_filter_mt(m, min_DP, min_GQ, log_entries_filtered) ==
  LET filtered == FilterEntries(m, min_DP, min_GQ) IN
  Return(IF log_entries_filtered THEN ComputeEntryFilterStats(filtered) ELSE filtered, <<>>)

----------------------------------------------------------------------------
(* add_varid *)

Colon == <<":">>

\* Varid with alleles[-1] in place of alleles[1]
VaridLastAllele(r) ==
  Delimit(<<r.locus.contig, IntToStr(r.locus.position), r.alleles[1],
            r.alleles[Len(r.alleles)]>>, Colon)

\* hl.delimit([contig, hl.str(position), alleles[0], alleles[1]], ":")
Varid(r) ==
  Delimit(<<r.locus.contig, IntToStr(r.locus.position), r.alleles[1], r.alleles[2]>>, Colon)

\* indexing alleles[1] of a row with fewer than two alleles fails in the engine
add_varid(m) ==
  IF \E r \in m.rows : Len(r.alleles) < 2
  THEN Raise("HailException", m, <<>>)
  ELSE Return([m EXCEPT !.fields = @ \cup {"varid"},
                        !.rows = {[r EXCEPT !.varid = Some(Varid(r))] : r \in m.rows}],
              <<>>)

----------------------------------------------------------------------------
(* Fixtures: the tables and configurations the stages are run on *)

S1 == <<"S", "1">>

S2 == <<"S", "2">>

DashS3 == <<"-", "S", "3">>

S9 == <<"S", "9">>

Chr1 == <<"c", "h", "r", "1">>

Chr10 == <<"c", "h", "r", "1", "0">>

Chr2 == <<"c", "h", "r", "2">>

Bases == << <<"A">>, <<"T">>, <<"G">>, <<"C">> >>

\* a reference base followed by k - 1 alternate bases
AlleleList(k) == SubSeq(Bases, 1, k)

Entry(gt, dp, gq) == Some([GT |-> gt, DP |-> dp, GQ |-> gq])

Qc(p, gq, n) == Some([p_value_hwe |-> p, gq_stats_mean |-> gq, n_non_ref |-> n])

DefaultQc == Qc(MaxP, MaxGQ, 1)

\* a call of every sample: S1 carries the last allele, S2 is haploid for the
\* first alternate allele when there is one, and the others have no entry
DefaultEntries(cols, k) ==
  [s \in cols |->
     IF s = S1 THEN Entry(Some(<<0, k - 1>>), Some(MaxDP + 1), Some(MaxGQ))
     ELSE IF s = S2 THEN Entry(Some(<<IF k > 1 THEN 1 ELSE 0>>), Some(MaxDP + 1), Some(MaxGQ))
     ELSE None]

MkRow(contig, pos, k, entries, qc) ==
  [rsid |-> <<"r", "s">> \o contig \o IntToStr(pos) \o IntToStr(k),
   locus |-> [contig |-> contig, position |-> pos],
   alleles |-> AlleleList(k),
   entries |-> entries,
   a_index |-> None, was_split |-> None, variant_qc |-> qc,
   varid |-> None, entry_stats_row |-> None]

MkMT(cols, rows) ==
  [fields |-> IF \E r \in rows : r.variant_qc # None THEN {"variant_qc"} ELSE {},
   cols |-> cols, rows |-> rows, entry_stats_col |-> None]

DefaultCfg ==
  [mapping |-> [GRCh38_region |-> <<"1">>, GRCh38_start |-> 1, GRCh38_end |-> MaxPos],
   intervals |-> {[contig |-> Chr1, start |-> 0, end |-> MaxPos]},
   samples_to_remove |-> <<S1>>,
   left_aligned |-> FALSE,
   min_p_value_hwe |-> Some(1),
   variant_min_GQ |-> Some(1),
   min_DP |-> 2,
   min_GQ |-> 1,
   log_entries_filtered |-> TRUE]

Scenario(files, c) == [files |-> files, cfg |-> c]

\* sample filtering: every subset of the samples against several exclusion lists
SampleScenarios ==
  {Scenario(<<MkMT(cols, {MkRow(Chr1, 1, 2, DefaultEntries(cols, 2), DefaultQc)})>>,
            [DefaultCfg EXCEPT !.samples_to_remove = list]) :
     cols \in SUBSET {S1, S2, DashS3},
     list \in {<<>>, <<S1>>, <<S1, S1>>, <<DashS3>>, <<S1, DashS3>>, <<S9>>, <<S2, S1>>}}

Calls == {None, Some(<<>>), Some(<<1>>), Some(<<0, 1>>), Some(<<0, 1, 1>>)}

Depths == {None} \cup {Some(d) : d \in (-1)..MaxDP}

Qualities == {Some(q) : q \in 0..MaxGQ}

\* genotype filtering: one entry of every ploidy, depth and quality against
\* every threshold, odd and even, negative and positive
GenotypeScenarios ==
  {Scenario(<<MkMT({S2}, {MkRow(Chr1, 1, 2, [s \in {S2} |-> e], DefaultQc)})>>,
            [DefaultCfg EXCEPT !.min_DP = min_DP, !.min_GQ = min_GQ,
                               !.log_entries_filtered = log]) :
     e \in {None} \cup {Entry(gt, dp, gq) : gt \in Calls, dp \in Depths, gq \in Qualities},
     min_DP \in (-MaxDP)..(2 * MaxDP), min_GQ \in 0..MaxGQ, log \in BOOLEAN}

SplitPool(qc) ==
  {MkRow(Chr1, pos, k, DefaultEntries({S1, S2}, k), qc) :
     pos \in 1..MaxPos, k \in 1..MaxAlleles}

\* splitting: one or two rows with 1 .. MaxAlleles alleles, at the same or at
\* different loci, with and without the variant_qc annotation
SplitScenarios ==
  {Scenario(<<MkMT({S1, S2}, rows)>>, [DefaultCfg EXCEPT !.left_aligned = la]) :
     rows \in {x \in SUBSET SplitPool(DefaultQc) \cup SUBSET SplitPool(None) :
                 Cardinality(x) <= 2},
     la \in BOOLEAN}

Thresholds(max) == {None} \cup {Some(t) : t \in 0..max}

\* variant filtering: a row with every value of the QC annotation, next to a
\* row that passes, against every combination of thresholds
QcScenarios ==
  {Scenario(<<MkMT({S1, S2}, {MkRow(Chr1, 1, 2, DefaultEntries({S1, S2}, 2), qc),
                              MkRow(Chr1, 12, 2, DefaultEntries({S1, S2}, 2), DefaultQc)})>>,
            [DefaultCfg EXCEPT !.min_p_value_hwe = min_p, !.variant_min_GQ = min_gq]) :
     qc \in {Qc(p, gq, n) : p \in 0..MaxP, gq \in 0..MaxGQ, n \in 0..1},
     min_p \in Thresholds(MaxP), min_gq \in Thresholds(MaxGQ)}
  \cup
  {Scenario(<<MkMT({S1, S2}, {MkRow(Chr1, 1, 2, DefaultEntries({S1, S2}, 2), None)})>>,
            [DefaultCfg EXCEPT !.min_p_value_hwe = min_p, !.variant_min_GQ = min_gq]) :
     min_p \in Thresholds(MaxP), min_gq \in Thresholds(MaxGQ)}

Contigs == {Chr1, Chr10, Chr2}

BedPool ==
  {[contig |-> c, start |-> se[1], end |-> se[2]] :
     c \in Contigs, se \in {<<0, 1>>, <<1, MaxPos>>, <<0, MaxPos>>}}

\* capture intervals: rows on chr1, chr10 and chr2 against interval files of at
\* most two lines, for each of the regions 1, 10 and 2
IntervalScenarios ==
  {Scenario(<<MkMT({S2}, {MkRow(c, pos, 2, DefaultEntries({S2}, 2), DefaultQc) :
                            c \in Contigs, pos \in 1..MaxPos})>>,
            [DefaultCfg EXCEPT !.mapping.GRCh38_region = region, !.intervals = bed]) :
     bed \in {x \in SUBSET BedPool : Cardinality(x) <= 2},
     region \in {<<"1">>, <<"1", "0">>, <<"2">>}}

\* two source files, with the same samples and with different samples
TwoFileScenarios ==
  {Scenario(<<MkMT({S1, S2}, {MkRow(Chr1, 1, 2, DefaultEntries({S1, S2}, 2), DefaultQc)}),
              MkMT(cols, {MkRow(Chr1, 2, 3, DefaultEntries(cols, 3), DefaultQc)})>>,
            DefaultCfg) :
     cols \in {{S1, S2}, {S2}}}

Scenarios ==
  SampleScenarios \cup GenotypeScenarios \cup SplitScenarios \cup QcScenarios
    \cup IntervalScenarios \cup TwoFileScenarios

\* the table before any file is imported
NoMT == MkMT({}, {})

----------------------------------------------------------------------------
(* The caller: a stage is a function call on the current table.  inp is the  *)
(* table the last call was given, hist the names of the calls made so far,   *)
(* status "ok" or the exception that reached the caller, stdout what the     *)
(* stages printed.                                                           *)

Call(name, r) ==
  /\ hist' = Append(hist, name)
  /\ inp' = mt
  /\ mt' = r.mt
  /\ status' = r.status
  /\ stdout' = stdout \o r.stdout
  /\ UNCHANGED <<vcf_files, cfg>>

LastCall == IF hist = <<>> THEN "none" ELSE hist[Len(hist)]

(* Spec: any one stage is called on a fixture table, and may then be called *)
(* again on its own result, up to MaxCalls calls.                           *)

Init ==
  \E sc \in Scenarios :
    /\ vcf_files = sc.files
    /\ cfg = sc.cfg
    /\ mt = sc.files[1]
    /\ inp = sc.files[1]
    /\ hist = <<>>
    /\ status = "ok"
    /\ stdout = <<>>
    /\ pc = "stage"

CanCall(name) ==
  /\ pc = "stage"
  /\ status = "ok"
  /\ Len(hist) < MaxCalls
  /\ LastCall \in {"none", name}

IntervalQc ==
  /\ CanCall("interval_qc_mt")
  /\ Call("interval_qc_mt", interval_qc_mt(mt, cfg.mapping, cfg.intervals))
  /\ UNCHANGED pc

HardSampleFilter ==
  /\ CanCall("hard_sample_filter_mt")
  /\ Call("hard_sample_filter_mt", hard_sample_filter_mt(mt, cfg.samples_to_remove))
  /\ UNCHANGED pc

SmartSplitMulti ==
  /\ CanCall("smart_split_multi_mt")
  /\ Call("smart_split_multi_mt", smart_split_multi_mt(mt, cfg.left_aligned))
  /\ UNCHANGED pc

GenotypeFilter ==
  /\ CanCall("genotype_filter_mt")
  /\ Call("genotype_filter_mt",
          genotype_filter_mt(mt, cfg.min_DP, cfg.min_GQ, cfg.log_entries_filtered))
  /\ UNCHANGED pc

HardVariantFilter ==
  /\ CanCall("hard_variant_filter_mt")
  /\ Call("hard_variant_filter_mt",
          hard_variant_filter_mt(mt, cfg.min_p_value_hwe, cfg.variant_min_GQ))
  /\ UNCHANGED pc

FilterNoCarriers ==
  /\ CanCall("filter_no_carriers")
  /\ Call("filter_no_carriers", filter_no_carriers(mt))
  /\ UNCHANGED pc

AddVarid ==
  /\ CanCall("add_varid")
  /\ Call("add_varid", add_varid(mt))
  /\ UNCHANGED pc

Next ==
  \/ IntervalQc
  \/ HardSampleFilter
  \/ SmartSplitMulti
  \/ GenotypeFilter
  \/ HardVariantFilter
  \/ FilterNoCarriers
  \/ AddVarid

Spec == Init /\ [][Next]_vars

(* PipelineSpec: the stages are called in the order of the end-to-end run,  *)
(* each on the result of the one before; an exception ends the run.         *)

PipelineInit ==
  \E sc \in Scenarios :
    /\ vcf_files = sc.files
    /\ cfg = sc.cfg
    /\ mt = NoMT
    /\ inp = NoMT
    /\ hist = <<>>
    /\ status = "ok"
    /\ stdout = <<>>
    /\ pc = "import_mt"

At(name) == pc = name /\ status = "ok"

PipeImport ==
  /\ At("import_mt")
  /\ Call("import_mt", import_mt(vcf_files, cfg.mapping))
  /\ pc' = "interval_qc_mt"

PipeIntervalQc ==
  /\ At("interval_qc_mt")
  /\ Call("interval_qc_mt", interval_qc_mt(mt, cfg.mapping, cfg.intervals))
  /\ pc' = "hard_sample_filter_mt"

PipeHardSampleFilter ==
  /\ At("hard_sample_filter_mt")
  /\ Call("hard_sample_filter_mt", hard_sample_filter_mt(mt, cfg.samples_to_remove))
  /\ pc' = "smart_split_multi_mt"

PipeSmartSplitMulti ==
  /\ At("smart_split_multi_mt")
  /\ Call("smart_split_multi_mt", smart_split_multi_mt(mt, cfg.left_aligned))
  /\ pc' = "genotype_filter_mt"

PipeGenotypeFilter ==
  /\ At("genotype_filter_mt")
  /\ Call("genotype_filter_mt",
          genotype_filter_mt(mt, cfg.min_DP, cfg.min_GQ, cfg.log_entries_filtered))
  /\ pc' = "hard_variant_filter_mt"

PipeHardVariantFilter ==
  /\ At("hard_variant_filter_mt")
  /\ Call("hard_variant_filter_mt",
          hard_variant_filter_mt(mt, cfg.min_p_value_hwe, cfg.variant_min_GQ))
  /\ pc' = "filter_no_carriers"

PipeFilterNoCarriers ==
  /\ At("filter_no_carriers")
  /\ Call("filter_no_carriers", filter_no_carriers(mt))
  /\ pc' = "add_varid"

PipeAddVarid ==
  /\ At("add_varid")
  /\ Call("add_varid", add_varid(mt))
  /\ pc' = "done"

PipelineNext ==
  \/ PipeImport
  \/ PipeIntervalQc
  \/ PipeHardSampleFilter
  \/ PipeSmartSplitMulti
  \/ PipeGenotypeFilter
  \/ PipeHardVariantFilter
  \/ PipeFilterNoCarriers
  \/ PipeAddVarid

PipelineSpec == PipelineInit /\ [][PipelineNext]_vars

----------------------------------------------------------------------------
(* Properties *)

Returned(name) == LastCall = name /\ status = "ok"

\* the identity of a row: what no stage changes
RowId(r) == [rsid |-> r.rsid, locus |-> r.locus, alleles |-> r.alleles]

RowIds(m) == {RowId(r) : r \in m.rows}

\* C1: hard_variant_filter_mt and filter_no_carriers, called on a table without
\* the variant_qc annotation, print a warning and return the table unfiltered;
\* no exception reaches the caller.
C1_MissingQcPassesThrough ==
  (LastCall \in {"hard_variant_filter_mt", "filter_no_carriers"} /\ ~ HasVariantQC(inp))
    => (status = "ok" /\ mt = inp /\ stdout # <<>>)

\* the ploidy-aware rule of C2, with the exact half of min_DP: DP > min_DP / 2
\* is 2 * DP > min_DP
PassesPloidyRule(e, min_DP, min_GQ) ==
  /\ e # None
  /\ e[1].GT # None /\ e[1].DP # None /\ e[1].GQ # None
  /\ \/ Len(e[1].GT[1]) = 1 /\ 2 * e[1].DP[1] > min_DP /\ e[1].GQ[1] >= min_GQ
     \/ Len(e[1].GT[1]) = 2 /\ e[1].DP[1] > min_DP /\ e[1].GQ[1] >= min_GQ

\* C2: genotype_filter_mt keeps an entry exactly when it passes the ploidy-aware
\* rule (haploid: DP > min_DP / 2 exactly and GQ >= min_GQ; diploid: DP > min_DP
\* and GQ >= min_GQ); every other entry becomes missing; no row or column is removed.
C2_GenotypeFilterRule ==
  LastCall = "genotype_filter_mt" =>
    /\ status = "ok"
    /\ mt.cols = inp.cols
    /\ RowIds(mt) = RowIds(inp)
    /\ Cardinality(mt.rows) = Cardinality(inp.rows)
    /\ \A r \in inp.rows : \A o \in mt.rows :
         RowId(o) = RowId(r) =>
           \A s \in inp.cols :
             o.entries[s] = IF PassesPloidyRule(r.entries[s], cfg.min_DP, cfg.min_GQ)
                            THEN r.entries[s] ELSE None

\* a haploid call just above the exact half of an odd min_DP is kept
C2_Witness ==
  /\ Returned("genotype_filter_mt")
  /\ cfg.min_DP % 2 = 1
  /\ \E r \in inp.rows : \E o \in mt.rows : \E s \in inp.cols :
       /\ RowId(o) = RowId(r)
       /\ r.entries[s] # None /\ r.entries[s][1].GT = Some(<<1>>)
       /\ r.entries[s][1].DP = Some((cfg.min_DP + 1) \div 2)
       /\ o.entries[s] = r.entries[s]

InExclusionList(s, list) == \E i \in DOMAIN list : list[i] = s

DashPrefixed(s) == s # <<>> /\ Head(s) = "-"

\* C3: the columns hard_sample_filter_mt returns are exactly the input columns
\* whose sample id is not in the exclusion list and does not begin with '-';
\* the rows of the output are the rows of the input.
C3_SampleFilterColumns ==
  LastCall = "hard_sample_filter_mt" =>
    /\ status = "ok"
    /\ mt.cols = {s \in inp.cols :
                    ~ InExclusionList(s, cfg.samples_to_remove) /\ ~ DashPrefixed(s)}
    /\ RowIds(mt) = RowIds(inp)
    /\ Cardinality(mt.rows) = Cardinality(inp.rows)

\* columns {S1, S2, -S3} with S1 in the list leave {S2}
C3_Witness ==
  /\ Returned("hard_sample_filter_mt")
  /\ inp.cols = {S1, S2, DashS3}
  /\ cfg.samples_to_remove = <<S1>>
  /\ mt.cols = {S2}

DroppedByThresholds(r, min_p_value_hwe, min_GQ) ==
  \/ min_p_value_hwe # None /\ r.variant_qc[1].p_value_hwe < min_p_value_hwe[1]
  \/ min_GQ # None /\ r.variant_qc[1].gq_stats_mean < min_GQ[1]

\* C4: on a table carrying variant_qc, hard_variant_filter_mt drops a row iff a
\* threshold that is set is not met (p_value_hwe < min_p_value_hwe, or
\* gq_stats.mean < min_GQ); with both thresholds unset the output is the input;
\* columns and entries are not changed.
C4_VariantFilterThresholds ==
  (LastCall = "hard_variant_filter_mt" /\ HasVariantQC(inp)) =>
    /\ status = "ok"
    /\ mt = [inp EXCEPT !.rows =
               {r \in inp.rows :
                  ~ DroppedByThresholds(r, cfg.min_p_value_hwe, cfg.variant_min_GQ)}]
    /\ (cfg.min_p_value_hwe = None /\ cfg.variant_min_GQ = None) => mt = inp

\* a row at the GQ threshold is kept while a row below it is dropped
C4_Witness ==
  /\ Returned("hard_variant_filter_mt")
  /\ cfg.variant_min_GQ # None
  /\ \E r \in mt.rows : r.variant_qc[1].gq_stats_mean = cfg.variant_min_GQ[1]
  /\ \E r \in inp.rows \ mt.rows :
       /\ r.variant_qc[1].gq_stats_mean < cfg.variant_min_GQ[1]
       /\ (cfg.min_p_value_hwe # None =>
             r.variant_qc[1].p_value_hwe >= cfg.min_p_value_hwe[1])

\* the output rows made of input row r: same rsid and locus, the reference allele
\* of r and one of its alternate alleles
DerivedRows(m, r) ==
  {o \in m.rows :
     /\ o.rsid = r.rsid /\ o.locus = r.locus
     /\ Len(o.alleles) = 2 /\ o.alleles[1] = r.alleles[1]
     /\ \E i \in 2..Len(r.alleles) : o.alleles[2] = r.alleles[i]}

\* C5: smart_split_multi_mt maps a row with 2 alleles to one row with a_index = 1
\* and was_split = false, and a row with k > 2 alleles to k - 1 rows, one per
\* alternate allele, with was_split = true and a_index 1 .. k - 1; the output is
\* the union of these rows.
C5_SplitRows ==
  LastCall = "smart_split_multi_mt" =>
    /\ status = "ok"
    /\ \A r \in inp.rows :
         /\ Len(r.alleles) = 2 =>
              /\ Cardinality(DerivedRows(mt, r)) = 1
              /\ \A o \in DerivedRows(mt, r) :
                   /\ o.a_index = Some(1) /\ o.was_split = Some(FALSE)
                   /\ o.alleles = r.alleles /\ o.entries = r.entries
         /\ Len(r.alleles) > 2 =>
              /\ Cardinality(DerivedRows(mt, r)) = Len(r.alleles) - 1
              /\ {o.a_index : o \in DerivedRows(mt, r)} =
                   {Some(i) : i \in 1..(Len(r.alleles) - 1)}
              /\ \A o \in DerivedRows(mt, r) :
                   /\ o.was_split = Some(TRUE)
                   /\ o.alleles = <<r.alleles[1], r.alleles[o.a_index[1] + 1]>>
    /\ \A o \in mt.rows :
         \E r \in inp.rows : Len(r.alleles) >= 2 /\ o \in DerivedRows(mt, r)

\* one row with 2 alleles and one with 3 give 1 unsplit and 2 split rows
C5_Witness ==
  /\ Returned("smart_split_multi_mt")
  /\ Cardinality(inp.rows) = 2
  /\ \E r \in inp.rows : Len(r.alleles) = 2
  /\ \E r \in inp.rows : Len(r.alleles) = 3
  /\ Cardinality({o \in mt.rows : o.was_split = Some(FALSE)}) = 1
  /\ Cardinality({o \in mt.rows : o.was_split = Some(TRUE)}) = 2

HasCall(e) == e # None /\ e[1].GT # None

\* C6: smart_split_multi_mt drops no call data: for every input row, whatever the
\* length of its allele list, and every sample with a call in it, the output has
\* a row at the same locus made of that row in which the sample has a call.
C6_SplitKeepsCalls ==
  LastCall = "smart_split_multi_mt" =>
    \A r \in inp.rows : \A s \in inp.cols :
      HasCall(r.entries[s]) =>
        \E o \in mt.rows :
          o.rsid = r.rsid /\ o.locus = r.locus /\ HasCall(o.entries[s])

\* a locus is inside BED line l: positions l.start + 1 .. l.end of l.contig
InBedLine(locus, l) ==
  locus.contig = l.contig /\ l.start < locus.position /\ locus.position <= l.end

\* C7: interval_qc_mt retains a row only if its locus is inside an interval whose
\* contig is exactly chr + GRCh38_region, and retains every such row.
C7_IntervalExactContig ==
  LastCall = "interval_qc_mt" =>
    /\ status = "ok"
    /\ \A o \in mt.rows :
         \E l \in cfg.intervals :
           l.contig = Chr \o cfg.mapping.GRCh38_region /\ InBedLine(o.locus, l)
    /\ \A r \in inp.rows :
         (\E l \in cfg.intervals :
            l.contig = Chr \o cfg.mapping.GRCh38_region /\ InBedLine(r.locus, l))
           => r \in mt.rows

ImportFailed == LastCall = "import_mt" /\ status # "ok"

\* C8: the end-to-end run import -> interval QC -> hard sample filter -> split ->
\* genotype filter -> variant filter -> no-carrier filter -> add varid completes
\* on every fixture that imports, and its result has a non-empty varid on every
\* row, no row with n_non_ref = 0, and no excluded or '-'-prefixed sample.
C8_PipelineCompletes ==
  \/ ImportFailed
  \/ /\ status = "ok"
     /\ pc = "done" =>
          /\ \A r \in mt.rows :
               /\ r.varid # None /\ r.varid[1] # <<>>
               /\ r.variant_qc # None /\ r.variant_qc[1].n_non_ref # 0
          /\ \A s \in mt.cols :
               ~ InExclusionList(s, cfg.samples_to_remove) /\ ~ DashPrefixed(s)

\* C9: add_varid only adds varid = contig:position:alleles[0]:alleles[1] to every
\* row and changes nothing else; applied to its own result it returns that
\* result unchanged.
C9_AddVaridPureIdempotent ==
  Returned("add_varid") =>
    /\ mt = [inp EXCEPT
               !.fields = @ \cup {"varid"},
               !.rows = {[r EXCEPT !.varid =
                            Some(r.locus.contig \o <<":">> \o IntToStr(r.locus.position)
                                   \o <<":">> \o r.alleles[1] \o <<":">> \o r.alleles[2])]
                         : r \in inp.rows}]
    /\ Len(hist) >= 2 => mt = inp

\* add_varid applied twice to a table with a row of more than two alleles
C9_Witness ==
  /\ Returned("add_varid")
  /\ Len(hist) = 2
  /\ \E r \in mt.rows : Len(r.alleles) > 2 /\ r.varid # None

DistinctKeys(m) ==
  \A a, b \in m.rows : (a.locus = b.locus /\ a.alleles = b.alleles) => a = b

\* C10: when the (locus, alleles) keys of the input rows are pairwise distinct,
\* so are the keys of the rows smart_split_multi_mt returns.
C10_SplitKeysDistinct ==
  (LastCall = "smart_split_multi_mt" /\ DistinctKeys(inp)) => DistinctKeys(mt)

====
